---- MODULE Spec2Model ----
(***************************************************************************)
(* Model of directus-typescript-gen (src/src/cli.ts): the pipeline of      *)
(* main() after the HTTP responses have been parsed.                       *)
(*                                                                         *)
(*   relations loop (231-249)  -> relatedCollectionByKey                   *)
(*   fields loop    (256-350)  -> collectionsMap, collectionIdType,        *)
(*                                collectionsByKey, duplicatedCollectionKeys*)
(*   duplicated keys loop (352-396) -> display keys rewritten              *)
(*   rendering      (398-438)  -> lines                                    *)
(*                                                                         *)
(* A JavaScript string is a sequence of pieces (TLA+ strings) whose        *)
(* concatenation is the string; string concatenation is \o and the empty   *)
(* string is <<>>.  Table names, translations, languages and display keys  *)
(* are sequences of one-character pieces, because the code looks inside    *)
(* them (pascalCase, singular, toLowerCase, startsWith, length).  Field    *)
(* names, backend types, special markers and choices are single TLA+       *)
(* strings; str gives the characters of one where the code joins it to a   *)
(* name (the keys of relatedCollectionByKey).                              *)
(***************************************************************************)
EXTENDS Naturals, Sequences, FiniteSets, TLC

VARIABLES
  collections,              \* input: CollectionInfo[] (GET /collections)
  fields,                   \* input: FieldInfo[] (GET /fields)
  relations,                \* input: Relation[] (GET /relations)
  legacy,                   \* input: argv.legacy
  pc,                       \* position in main()
  i,                        \* index of the running loop (1-based)
  relatedCollectionByKey,   \* Map "<one_collection>|<field>" -> table
  collectionIdType,         \* Map table -> identifier type
  collectionsMap,           \* Map table -> Collection, in insertion order
  collectionsByKey,         \* Map key -> Collection[] (tables, in array order)
  duplicatedCollectionKeys, \* Set of keys, in insertion order
  errors,                   \* what console.error has reported
  lines                     \* the rendered lines

vars == <<collections, fields, relations, legacy, pc, i, relatedCollectionByKey,
          collectionIdType, collectionsMap, collectionsByKey,
          duplicatedCollectionKeys, errors, lines>>

(***************************************************************************)
(* Bounds of the inputs.                                                   *)
(***************************************************************************)
\* longest field list drawn from the schema snapshot SchemaFields
MaxFields == 4
\* longest field list drawn over the colliding tables NameTables
MaxNameFields == 3

(***************************************************************************)
(* Characters and the string functions of the JavaScript runtime.          *)
(***************************************************************************)
LowerLetters ==
  <<"a","b","c","d","e","f","g","h","i","j","k","l","m",
    "n","o","p","q","r","s","t","u","v","w","x","y","z">>
UpperLetters ==
  <<"A","B","C","D","E","F","G","H","I","J","K","L","M",
    "N","O","P","Q","R","S","T","U","V","W","X","Y","Z">>

Digits == <<"0","1","2","3","4","5","6","7","8","9">>

\* the letters of Latin-1 that have the other case in Latin-1
\* (U+00C0..U+00DE but the sign U+00D7, U+00E0..U+00FE but the sign U+00F7)
Latin1Upper ==
  <<"À","Á","Â","Ã","Ä","Å","Æ","Ç","È","É","Ê","Ë","Ì",
    "Í","Î","Ï","Ð","Ñ","Ò","Ó","Ô","Õ","Ö","Ø","Ù","Ú",
    "Û","Ü","Ý","Þ">>
Latin1Lower ==
  <<"à","á","â","ã","ä","å","æ","ç","è","é","ê","ë","ì",
    "í","î","ï","ð","ñ","ò","ó","ô","õ","ö","ø","ù","ú",
    "û","ü","ý","þ">>

\* the characters without case that are written as they are: of ASCII
\* (U+0020..U+007E) and of Latin-1 (U+00A1..U+00FF)
Symbols ==
  <<" ","!","\"","#","$","%","&","'","(",")","*","+",",",
    "-",".","/",":",";","<","=",">","?","@","[","\\","]",
    "^","_","{","|","}","~">>
Latin1Symbols ==
  <<"¡","¢","£","¤","¥","¦","§","¨","©","ª","«","¬","®",
    "¯","°","±","²","³","´","¶","·","¸","¹","º","»","¼",
    "½","¾","¿","×","÷">>

\* the characters without case that are written as their code points: the
\* control characters, the grave accent, the no-break space and the soft
\* hyphen
CodePoints ==
  <<"U+0000","U+0001","U+0002","U+0003","U+0004","U+0005","U+0006",
    "U+0007","U+0008","U+0009","U+000A","U+000B","U+000C","U+000D",
    "U+000E","U+000F","U+0010","U+0011","U+0012","U+0013","U+0014",
    "U+0015","U+0016","U+0017","U+0018","U+0019","U+001A","U+001B",
    "U+001C","U+001D","U+001E","U+001F","U+0060","U+007F","U+0080",
    "U+0081","U+0082","U+0083","U+0084","U+0085","U+0086","U+0087",
    "U+0088","U+0089","U+008A","U+008B","U+008C","U+008D","U+008E",
    "U+008F","U+0090","U+0091","U+0092","U+0093","U+0094","U+0095",
    "U+0096","U+0097","U+0098","U+0099","U+009A","U+009B","U+009C",
    "U+009D","U+009E","U+009F","U+00A0","U+00AD">>

LowerSet == {LowerLetters[k] : k \in DOMAIN LowerLetters}
UpperSet == {UpperLetters[k] : k \in DOMAIN UpperLetters}
DigitSet == {Digits[k] : k \in DOMAIN Digits}

\* the three characters of Latin-1 whose upper case is outside it or longer:
\* the micro sign U+00B5, the sharp s U+00DF, the y with diaeresis U+00FF,
\* and what the runtime maps them to and back: the capital Y with diaeresis
\* U+0178, the Greek capital mu U+039C and its lower case U+03BC, written
\* as their code points
MicroSign == "µ"
SharpS == "ß"
SmallYDiaeresis == "ÿ"
CapitalYDiaeresis == "U+0178"
GreekCapitalMu == "U+039C"
GreekSmallMu == "U+03BC"

\* the characters of the model: those of Latin-1 (U+0000..U+00FF) and the
\* three that the case mappings reach from them.  The case mappings are
\* defined on these and on no other character.
Chars ==
  LowerSet \cup UpperSet \cup DigitSet
  \cup {Symbols[k] : k \in DOMAIN Symbols}
  \cup {CodePoints[k] : k \in DOMAIN CodePoints}
  \cup {Latin1Upper[k] : k \in DOMAIN Latin1Upper}
  \cup {Latin1Lower[k] : k \in DOMAIN Latin1Lower}
  \cup {Latin1Symbols[k] : k \in DOMAIN Latin1Symbols}
  \cup {MicroSign, SharpS, SmallYDiaeresis, CapitalYDiaeresis,
        GreekCapitalMu, GreekSmallMu}

IsLower(c) == c \in LowerSet
IsUpper(c) == c \in UpperSet
IsDigit(c) == c \in DigitSet
\* [A-Z0-9] with the i flag
IsAlnum(c) == IsLower(c) \/ IsUpper(c) \/ IsDigit(c)
\* \w
IsWordChar(c) == IsAlnum(c) \/ c = "_"

\* the characters of a string literal, one piece each
str(s) == [k \in 1..Len(s) |-> SubSeq(s, k, k)]

\* String.prototype.toLowerCase of one character: one character
lowerOf ==
  [c \in Chars |->
     IF c \in UpperSet
       THEN LowerLetters[CHOOSE k \in DOMAIN UpperLetters : UpperLetters[k] = c]
     ELSE IF \E k \in DOMAIN Latin1Upper : Latin1Upper[k] = c
       THEN Latin1Lower[CHOOSE k \in DOMAIN Latin1Upper : Latin1Upper[k] = c]
     ELSE IF c = CapitalYDiaeresis THEN SmallYDiaeresis
     ELSE IF c = GreekCapitalMu THEN GreekSmallMu
     ELSE c]

\* String.prototype.toUpperCase of one character: a string, of two
\* characters for the sharp s
upperOf ==
  [c \in Chars |->
     IF c \in LowerSet
       THEN <<UpperLetters[CHOOSE k \in DOMAIN LowerLetters : LowerLetters[k] = c]>>
     ELSE IF \E k \in DOMAIN Latin1Lower : Latin1Lower[k] = c
       THEN <<Latin1Upper[CHOOSE k \in DOMAIN Latin1Lower : Latin1Lower[k] = c]>>
     ELSE IF c = SharpS THEN <<"S", "S">>
     ELSE IF c = SmallYDiaeresis THEN <<CapitalYDiaeresis>>
     ELSE IF c \in {MicroSign, GreekSmallMu} THEN <<GreekCapitalMu>>
     ELSE <<c>>]

toLowerChar(c) == lowerOf[c]
toUpperChar(c) == upperOf[c]

\* String.prototype.toLowerCase / toUpperCase
toLowerCase(s) == [k \in 1..Len(s) |-> toLowerChar(s[k])]

RECURSIVE toUpperCase(_)
toUpperCase(s) ==
  IF s = <<>> THEN <<>> ELSE toUpperChar(s[1]) \o toUpperCase(Tail(s))

\* String.prototype.startsWith
startsWith(s, prefix) ==
  Len(s) >= Len(prefix) /\ SubSeq(s, 1, Len(prefix)) = prefix

(***************************************************************************)
(* pascalCase of change-case 4.1.2 (no-case + pascalCaseTransform):        *)
(* the input is split where a lower-case letter or a digit is followed by  *)
(* an upper-case letter (/([a-z0-9])([A-Z])/g) and before the last         *)
(* upper-case letter of a run that is followed by a lower-case one         *)
(* (/([A-Z])([A-Z][a-z])/g); every run of other characters                 *)
(* (/[^A-Z0-9]+/gi) separates two words and is dropped.  Each word is      *)
(* rendered by pascalCaseTransform: first character upper case, the rest   *)
(* lower case, and a word after the first that starts with a digit is      *)
(* prefixed with `_`; the words are joined with no delimiter.              *)
(***************************************************************************)
SplitBefore(s, k) ==
  /\ k > 1
  /\ k <= Len(s)
  /\ \/ (IsLower(s[k-1]) \/ IsDigit(s[k-1])) /\ IsUpper(s[k])
     \/ IsUpper(s[k-1]) /\ IsUpper(s[k]) /\ k < Len(s) /\ IsLower(s[k+1])

WordStart(s, k) ==
  /\ k \in 1..Len(s)
  /\ IsAlnum(s[k])
  /\ (k = 1 \/ ~IsAlnum(s[k-1]) \/ SplitBefore(s, k))

\* pascalCaseTransform applied to the character at k
RECURSIVE pascalFrom(_, _)
pascalFrom(s, k) ==
  IF k > Len(s) THEN <<>>
  ELSE (IF ~IsAlnum(s[k]) THEN <<>>
        ELSE IF WordStart(s, k)
          THEN (IF IsDigit(s[k]) /\ \E j \in 1..(k-1) : IsAlnum(s[j])
                  THEN <<"_", s[k]>>
                  ELSE toUpperChar(s[k]))
        ELSE <<toLowerChar(s[k])>>) \o pascalFrom(s, k + 1)

pascalCase(s) == pascalFrom(s, 1)

(***************************************************************************)
(* singular of pluralize 8.0.0:                                            *)
(*   replaceWord(irregularPlurals, irregularSingles, singularRules).       *)
(* A rule is a regular expression anchored at the end of the word and a    *)
(* replacement.  Its expression is written as                              *)
(*   alts   the alternatives of its first group, in order (one empty       *)
(*          alternative when it has no group);                             *)
(*   tails  what follows the group, in the order the expression tries;     *)
(*   boundary  the expression starts with \b;                              *)
(* and its replacement as `keep` ('$0': the match itself) or `repl`, the   *)
(* text after '$1'.  An alternative is a literal, a literal after one      *)
(* character outside a class, or a literal at the start of the word.       *)
(***************************************************************************)
Lit(s) == [kind |-> "lit", chars |-> str(s), set |-> {}]
NotIn(set, s) == [kind |-> "not", chars |-> str(s), set |-> set]
AtStart(s) == [kind |-> "start", chars |-> str(s), set |-> {}]
Lits(texts) == [k \in 1..Len(texts) |-> Lit(texts[k])]
Strs(texts) == [k \in 1..Len(texts) |-> str(texts[k])]

Rule(alts, tails, repl) ==
  [alts |-> alts, tails |-> Strs(tails), repl |-> str(repl),
   boundary |-> FALSE, keep |-> FALSE]
WordRule(alts, tails, repl) ==
  [alts |-> alts, tails |-> Strs(tails), repl |-> str(repl),
   boundary |-> TRUE, keep |-> FALSE]
\* addUncountableRule of a regular expression: addSingularRule(rule, '$0')
UncountableRule(alts, tail) ==
  [alts |-> alts, tails |-> <<tail>>, repl |-> <<>>,
   boundary |-> FALSE, keep |-> TRUE]

WordChars == LowerSet \cup DigitSet \cup {"_"}

\* the singularization rules, then the uncountable expressions, in the
\* order they are added
singularRules ==
  << Rule(<<Lit("")>>, <<"s">>, ""),
     Rule(<<Lit("ss")>>, <<"">>, ""),
     Rule(<<Lit("wi"), Lit("kni"), Lit("afterli"), Lit("halfli"),
            Lit("highli"), Lit("lowli"), Lit("midli"), Lit("nonli"),
            Lit("nightli"), NotIn(WordChars, "li"), AtStart("li")>>,
          <<"ves">>, "fe"),
     Rule(Lits(<<"ar", "wol", "al", "el", "ea", "eo", "oa", "oo">>),
          <<"ves">>, "f"),
     Rule(<<Lit("")>>, <<"ies">>, "y"),
     Rule(Lits(<<"dg", "ss", "ois", "lk", "ok", "wn", "mb", "th", "ch", "ec",
                 "oal", "is", "ck", "ix", "sser", "ts", "wb">>),
          <<"ies">>, "ie"),
     WordRule(Lits(<<"l", "neckt", "crosst", "hogt", "aunt", "t", "coll",
                     "faer", "food", "gen", "goon", "group", "hipp", "junk",
                     "vegg", "porkp", "p", "charl", "calor", "cut">>),
              <<"ies">>, "ie"),
     WordRule(Lits(<<"mon", "smil">>), <<"ies">>, "ey"),
     WordRule(Lits(<<"titm", "m", "l">>), <<"ice">>, "ouse"),
     Rule(Lits(<<"seraph", "cherub">>), <<"im">>, ""),
     Rule(Lits(<<"x", "ch", "ss", "sh", "zz", "tto", "go", "cho", "alias">>)
          \o <<NotIn({"a", "o", "u"}, "us")>>
          \o Lits(<<"tlas", "tmas", "gas", "hero", "ato", "gro", "aris",
                    "eris", "iris", "oris", "uris">>),
          <<"es", "">>, ""),
     Rule(Lits(<<"analy", "diagno", "parenthe", "progno", "synop", "the",
                 "empha", "cri", "ne">>),
          <<"sis", "ses">>, "sis"),
     Rule(Lits(<<"movie", "twelve", "abuse", "emu", "enu">>), <<"s">>, ""),
     Rule(<<Lit("test")>>, <<"is", "es">>, "is"),
     Rule(Lits(<<"alumn", "syllab", "vir", "radi", "nucle", "fung", "cact",
                 "stimul", "termin", "bacill", "foc", "uter", "loc",
                 "strat">>),
          <<"us", "i">>, "us"),
     Rule(Lits(<<"agend", "addend", "millenni", "dat", "extrem", "bacteri",
                 "desiderat", "strat", "candelabr", "errat", "ov", "symposi",
                 "curricul", "quor">>),
          <<"a">>, "um"),
     Rule(Lits(<<"apheli", "hyperbat", "periheli", "asyndet", "noumen",
                 "phenomen", "criteri", "organ", "prolegomen", "hedr",
                 "automat">>),
          <<"a">>, "on"),
     Rule(Lits(<<"alumn", "alg", "vertebr">>), <<"ae">>, "a"),
     Rule(Lits(<<"cod", "mur", "sil", "vert", "ind">>), <<"ices">>, "ex"),
     Rule(Lits(<<"matr", "append">>), <<"ices">>, "ix"),
     Rule(<<Lit("pe")>>, <<"rson", "ople">>, "rson"),
     Rule(<<Lit("child")>>, <<"ren">>, ""),
     Rule(<<Lit("eau")>>, <<"x", "">>, ""),
     Rule(<<Lit("")>>, <<"men">>, "man"),
     UncountableRule(<<Lit("pok")>>, <<"e","m","o","n">>),
     UncountableRule(<<Lit("pok")>>, <<"é","m","o","n">>),
     UncountableRule(<<NotIn({"a", "e", "i", "o", "u"}, "")>>, str("ese")),
     UncountableRule(<<Lit("")>>, str("deer")),
     UncountableRule(<<Lit("")>>, str("fish")),
     UncountableRule(<<Lit("")>>, str("measles")),
     UncountableRule(Lits(<<"oi", "ou">>), str("s")),
     UncountableRule(<<Lit("")>>, str("pox")),
     UncountableRule(<<Lit("")>>, str("sheep")) >>

\* the irregular words, <<single, plural>>
irregularRules ==
  << <<"i", "we">>, <<"me", "us">>, <<"he", "they">>, <<"she", "they">>,
     <<"them", "them">>, <<"myself", "ourselves">>,
     <<"yourself", "yourselves">>, <<"itself", "themselves">>,
     <<"herself", "themselves">>, <<"himself", "themselves">>,
     <<"themself", "themselves">>, <<"is", "are">>, <<"was", "were">>,
     <<"has", "have">>, <<"this", "these">>, <<"that", "those">>,
     <<"my", "our">>, <<"its", "their">>, <<"his", "their">>,
     <<"her", "their">>,
     <<"echo", "echoes">>, <<"dingo", "dingoes">>, <<"volcano", "volcanoes">>,
     <<"tornado", "tornadoes">>, <<"torpedo", "torpedoes">>,
     <<"genus", "genera">>, <<"viscus", "viscera">>,
     <<"stigma", "stigmata">>, <<"stoma", "stomata">>, <<"dogma", "dogmata">>,
     <<"lemma", "lemmata">>, <<"schema", "schemata">>,
     <<"anathema", "anathemata">>,
     <<"ox", "oxen">>, <<"axe", "axes">>, <<"die", "dice">>,
     <<"yes", "yeses">>, <<"foot", "feet">>, <<"eave", "eaves">>,
     <<"goose", "geese">>, <<"tooth", "teeth">>, <<"quiz", "quizzes">>,
     <<"human", "humans">>, <<"proof", "proofs">>, <<"carve", "carves">>,
     <<"valve", "valves">>, <<"looey", "looies">>, <<"thief", "thieves">>,
     <<"groove", "grooves">>, <<"pickaxe", "pickaxes">>,
     <<"passerby", "passersby">> >>

\* irregularSingles: the singles, and irregularPlurals: plural -> single,
\* the last rule of a plural winning
irregularSingles == {str(irregularRules[k][1]) : k \in DOMAIN irregularRules}
irregularPlurals ==
  [plural \in {str(irregularRules[k][2]) : k \in DOMAIN irregularRules} |->
     str(irregularRules[CHOOSE k \in DOMAIN irregularRules :
                          /\ str(irregularRules[k][2]) = plural
                          /\ \A j \in DOMAIN irregularRules :
                               str(irregularRules[j][2]) = plural => j <= k][1])]

uncountableWords ==
  << "adulthood", "advice", "agenda", "aid", "aircraft", "alcohol", "ammo",
     "analytics", "anime", "athletics", "audio", "bison", "blood", "bream",
     "buffalo", "butter", "carp", "cash", "chassis", "chess", "clothing",
     "cod", "commerce", "cooperation", "corps", "debris", "diabetes",
     "digestion", "elk", "energy", "equipment", "excretion", "expertise",
     "firmware", "flounder", "fun", "gallows", "garbage", "graffiti",
     "hardware", "headquarters", "health", "herpes", "highjinks", "homework",
     "housework", "information", "jeans", "justice", "kudos", "labour",
     "literature", "machinery", "mackerel", "mail", "media", "mews", "moose",
     "music", "mud", "manga", "news", "only", "personnel", "pike", "plankton",
     "pliers", "police", "pollution", "premises", "rain", "research", "rice",
     "salmon", "scissors", "series", "sewage", "shambles", "shrimp",
     "software", "species", "staff", "swine", "tennis", "traffic",
     "transportation", "trout", "tuna", "wealth", "welfare", "whiting",
     "wildebeest", "wildlife", "you" >>
uncountables == {str(uncountableWords[k]) : k \in DOMAIN uncountableWords}

\* restoreCase(word, token): the case of word given to token
restoreCase(word, token) ==
  IF word = token THEN token
  ELSE IF word = toLowerCase(word) THEN toLowerCase(token)
  ELSE IF word = toUpperCase(word) THEN toUpperCase(token)
  ELSE IF <<word[1]>> = toUpperChar(word[1])
    THEN (IF token = <<>> THEN <<>>
          ELSE toUpperChar(token[1]) \o toLowerCase(Tail(token)))
  ELSE toLowerCase(token)

altLen(alt) == Len(alt.chars) + (IF alt.kind = "not" THEN 1 ELSE 0)

\* the tail t of the rule ends the word, whose lower case is token (the
\* expressions carry the i flag)
tailEnds(rule, t, token) ==
  /\ Len(rule.tails[t]) <= Len(token)
  /\ SubSeq(token, Len(token) - Len(rule.tails[t]) + 1, Len(token))
       = rule.tails[t]

\* and the alternative a comes just before it
matchesEnd(rule, a, t, token, word) ==
  LET alt == rule.alts[a]
      n == Len(word)
      last == n - Len(rule.tails[t])
  IN /\ tailEnds(rule, t, token)
     /\ altLen(alt) <= last
     /\ SubSeq(token, last - Len(alt.chars) + 1, last) = alt.chars
     /\ alt.kind = "not" => token[last - Len(alt.chars)] \notin alt.set
     /\ alt.kind = "start" => altLen(alt) = last
     /\ rule.boundary =>
          altLen(alt) = last \/ ~IsWordChar(word[last - altLen(alt)])

ruleMatches(rule, token, word) ==
  {m \in (DOMAIN rule.alts) \X (DOMAIN rule.tails) :
     matchesEnd(rule, m[1], m[2], token, word)}

\* rule[0].test(word)
ruleTest(rule, token, word) ==
  \E t \in DOMAIN rule.tails :
    /\ tailEnds(rule, t, token)
    /\ \E a \in DOMAIN rule.alts : matchesEnd(rule, a, t, token, word)

\* replace(word, rule): the leftmost match, the first alternative and the
\* first tail that make it; the match is replaced with
\* restoreCase(match, interpolate(rule[1], arguments))
replace(token, word, rule) ==
  LET ms == ruleMatches(rule, token, word)
      size(m) == altLen(rule.alts[m[1]]) + Len(rule.tails[m[2]])
      before(x, y) ==
        \/ size(x) > size(y)
        \/ size(x) = size(y) /\ x[1] < y[1]
        \/ size(x) = size(y) /\ x[1] = y[1] /\ x[2] <= y[2]
      m == CHOOSE x \in ms : \A y \in ms : before(x, y)
      start == Len(word) - size(m) + 1
      match == SubSeq(word, start, Len(word))
      group == SubSeq(word, start, start + altLen(rule.alts[m[1]]) - 1)
  IN IF rule.keep THEN word
     ELSE SubSeq(word, 1, start - 1)
          \o restoreCase(match, group \o rule.repl)

\* the loop of sanitizeWord: the rules are tried last-added first, and the
\* first one to match is applied
applyRules(token, word) ==
  LET matching == {k \in DOMAIN singularRules :
                     ruleTest(singularRules[k], token, word)}
  IN IF matching = {} THEN word
     ELSE replace(token, word,
                  singularRules[CHOOSE k \in matching :
                                  \A j \in matching : j <= k])

sanitizeWord(token, word) ==
  IF token = <<>> \/ token \in uncountables THEN word
  ELSE applyRules(token, word)

singular(word) ==
  LET token == toLowerCase(word)
  IN IF token \in irregularSingles THEN restoreCase(word, token)
     ELSE IF token \in DOMAIN irregularPlurals
       THEN restoreCase(word, irregularPlurals[token])
     ELSE sanitizeWord(token, word)

(***************************************************************************)
(* Maps and joins.                                                         *)
(***************************************************************************)
\* Map.prototype.has / set on a Map whose iteration order is not used
MapHas(m, k) == k \in DOMAIN m
MapSet(m, k, v) == [x \in DOMAIN m \cup {k} |-> IF x = k THEN v ELSE m[x]]

\* Array.prototype.join on strings
RECURSIVE join(_, _)
join(texts, sep) ==
  IF texts = <<>> THEN <<>>
  ELSE IF Len(texts) = 1 THEN texts[1]
  ELSE texts[1] \o sep \o join(Tail(texts), sep)

(***************************************************************************)
(* The constant tables of cli.ts.                                          *)
(***************************************************************************)
types ==
  [t \in {"string", "uuid", "timestamp", "dateTime", "date", "text", "json",
          "csv", "hash", "integer", "bigInteger", "float", "boolean", "alias"}
     |-> IF t \in {"integer", "bigInteger", "float", "alias"} THEN "number"
         ELSE IF t = "boolean" THEN "boolean"
         ELSE "string"]

fieldsToAvoidChoices == {"auth_password_policy"}
multipleSpecial == {"o2m", "m2m", "translations"}
stringArrayInterfaces == {"tags", "select-multiple-checkbox-tree"}

(***************************************************************************)
(* Absent values.  An optional object carries a flag `present`; an absent  *)
(* or empty string is <<>> (or ""), both falsy in the code.                *)
(***************************************************************************)
NoSchema ==
  [present |-> FALSE, is_nullable |-> FALSE, is_primary_key |-> FALSE,
   foreign_key_table |-> <<>>]
NoMeta ==
  [present |-> FALSE, required |-> FALSE, special |-> <<>>, interface |-> "",
   choices |-> <<>>]
NoRelation ==
  [present |-> FALSE, table |-> <<>>, multiple |-> FALSE, isM2M |-> FALSE]
NoCollectionInfo ==
  [present |-> FALSE, collection |-> <<>>, translations |-> <<>>,
   singleton |-> FALSE]

(***************************************************************************)
(* getTypes (114-148): the candidate types of a field without relation,    *)
(* and what it reports.                                                    *)
(***************************************************************************)
choiceLiteral(type, choiceText) ==
  IF type # "number" THEN <<"'", choiceText, "'">> ELSE <<choiceText>>

getTypes(field, directusType, meta) ==
  IF directusType = "json" /\ meta.present /\ meta.interface # ""
     /\ meta.interface \in stringArrayInterfaces
    THEN << <<"string[]">> >>
  ELSE
    LET type == IF directusType \in DOMAIN types THEN types[directusType]
                ELSE "undefined"
    IN IF field \notin fieldsToAvoidChoices /\ directusType # "json"
          /\ meta.present /\ Len(meta.choices) > 0
         THEN [k \in 1..Len(meta.choices) |-> choiceLiteral(type, meta.choices[k])]
       ELSE IF directusType \in DOMAIN types THEN << <<type>> >>
       ELSE <<>>

getTypesErrors(field, directusType, meta) ==
  IF directusType = "json" /\ meta.present /\ meta.interface # ""
     /\ meta.interface \in stringArrayInterfaces
    THEN <<>>
  ELSE IF field \notin fieldsToAvoidChoices /\ directusType # "json"
          /\ meta.present /\ Len(meta.choices) > 0
    THEN <<>>
  ELSE IF directusType \in DOMAIN types THEN <<>>
  ELSE << <<"Type missing", directusType>> >>

(***************************************************************************)
(* collectionsMap: a Map iterated later, so a sequence of Collection       *)
(* records in insertion order, looked up by table.                         *)
(***************************************************************************)
hasCollection(cmap, table) == \E k \in DOMAIN cmap : cmap[k].table = table
getCollection(cmap, table) ==
  cmap[CHOOSE k \in DOMAIN cmap : cmap[k].table = table]

(***************************************************************************)
(* getTypesText (150-180).                                                 *)
(***************************************************************************)
\* 158-169: what a relation adds to the union
relationTypes(cmap, idType, relation) ==
  IF relation.present /\ hasCollection(cmap, relation.table)
    THEN (IF MapHas(idType, relation.table)
            THEN << <<idType[relation.table]>> >> ELSE <<>>)
         \o <<getCollection(cmap, relation.table).key>>
    ELSE <<>>

relationTypesErrors(cmap, relation) ==
  IF relation.present /\ ~hasCollection(cmap, relation.table)
    THEN << <<"Collection not found for table", relation.table>> >>
    ELSE <<>>

\* getTypesText with the array suffix of a multi-valued relation always put
\* once, after the parenthesized union
getTypesTextOuterArray(fieldTypes, cmap, idType, nullable, relation) ==
  LET res == fieldTypes \o relationTypes(cmap, idType, relation)
      multiple == relation.present /\ relation.multiple
      addNull == nullable /\ ~multiple
      multipleTypes == Len(res) > 1
  IN (IF multipleTypes /\ (addNull \/ multiple) THEN <<"(">> ELSE <<>>)
     \o join(res, <<" | ">>)
     \o (IF multipleTypes /\ (addNull \/ multiple) THEN <<")">> ELSE <<>>)
     \o (IF multiple THEN <<"[]">> ELSE <<>>)
     \o (IF addNull THEN <<" | null">> ELSE <<>>)

\* getTypesText with addNull = nullable, the multiplicity forgotten
getTypesTextNullOfMultiple(fieldTypes, cmap, idType, nullable, relation) ==
  LET res == fieldTypes \o relationTypes(cmap, idType, relation)
      multiple == relation.present /\ relation.multiple
      addNull == nullable
      multipleTypes == Len(res) > 1
      members == [k \in 1..Len(res) |->
                    res[k] \o (IF multipleTypes /\ ~addNull /\ multiple
                                 THEN <<"[]">> ELSE <<>>)]
  IN (IF multipleTypes /\ addNull THEN <<"(">> ELSE <<>>)
     \o join(members, <<" | ">>)
     \o (IF multipleTypes /\ addNull THEN <<")">> ELSE <<>>)
     \o (IF ~(multipleTypes /\ ~addNull) /\ multiple THEN <<"[]">> ELSE <<>>)
     \o (IF addNull THEN <<" | null">> ELSE <<>>)

getTypesText(fieldTypes, cmap, idType, nullable, relation) ==
  LET res == fieldTypes \o relationTypes(cmap, idType, relation)
      multiple == relation.present /\ relation.multiple
      addNull == nullable /\ ~multiple
      multipleTypes == Len(res) > 1
      members == [k \in 1..Len(res) |->
                    res[k] \o (IF multipleTypes /\ ~addNull /\ multiple
                                 THEN <<"[]">> ELSE <<>>)]
  IN (IF multipleTypes /\ addNull THEN <<"(">> ELSE <<>>)
     \o join(members, <<" | ">>)
     \o (IF multipleTypes /\ addNull THEN <<")">> ELSE <<>>)
     \o (IF ~(multipleTypes /\ ~addNull) /\ multiple THEN <<"[]">> ELSE <<>>)
     \o (IF addNull THEN <<" | null">> ELSE <<>>)

(***************************************************************************)
(* The relations loop (231-249): relatedCollectionByKey, keyed by the      *)
(* string `${one_collection}|${one_field || many_field}`.                  *)
(***************************************************************************)
\* `${collection}|${field}` (243-245 and 309, 319)
relationKey(collection, field) == collection \o <<"|">> \o str(field)

\* 235-239; an absent many_collection is undefined, equal to no string
isReverseRelation(relation) ==
  /\ relation.meta.present
  /\ relation.meta.has_many_collection
  /\ relation.meta.many_collection = relation.collection
  /\ relation.meta.one_collection # <<>>
  /\ (relation.meta.one_field # "" \/ relation.meta.many_field # "")

reverseKey(relation) ==
  relationKey(relation.meta.one_collection,
              IF relation.meta.one_field # "" THEN relation.meta.one_field
              ELSE relation.meta.many_field)

RECURSIVE indexRelations(_, _, _)
indexRelations(rels, k, index) ==
  IF k > Len(rels) THEN index
  ELSE indexRelations(rels, k + 1,
         IF isReverseRelation(rels[k])
           THEN MapSet(index, reverseKey(rels[k]), rels[k].collection)
           ELSE index)

(***************************************************************************)
(* The fields loop (256-350).                                              *)
(***************************************************************************)
\* 259-261
avoid(fieldInfo) ==
  /\ fieldInfo.type = "alias"
  /\ fieldInfo.meta.present
  /\ \E k \in DOMAIN fieldInfo.meta.special :
       fieldInfo.meta.special[k] \in {"group", "no-data"}

\* 264-271
idTypeAfter(idType, fieldInfo) ==
  IF fieldInfo.field = "id" /\ fieldInfo.type \in DOMAIN types
    THEN MapSet(idType, fieldInfo.collection, types[fieldInfo.type])
    ELSE idType

idTypeErrors(fieldInfo) ==
  IF fieldInfo.field = "id" /\ fieldInfo.type \notin DOMAIN types
    THEN << <<"Missing type for", fieldInfo.type>> >>
    ELSE <<>>

\* 217-219 and 274: new Map(collections.map(...)).get(table); the last entry
\* of a table wins
collectionInfoOf(colls, table) ==
  IF \E k \in DOMAIN colls : colls[k].collection = table
    THEN colls[CHOOSE k \in DOMAIN colls :
                 /\ colls[k].collection = table
                 /\ \A j \in DOMAIN colls : colls[j].collection = table => j <= k]
    ELSE NoCollectionInfo

NoTranslation == [language |-> <<>>, translation |-> <<>>, singular |-> <<>>]

\* 275-277: translations?.find(t => t.language.toLowerCase().startsWith(`en`))
englishTranslation(info) ==
  LET isEnglish(t) == startsWith(toLowerCase(t.language), <<"e", "n">>)
      trs == info.translations
  IN IF \E k \in DOMAIN trs : isEnglish(trs[k])
       THEN trs[CHOOSE k \in DOMAIN trs :
                  /\ isEnglish(trs[k])
                  /\ \A j \in DOMAIN trs : isEnglish(trs[j]) => k <= j]
       ELSE NoTranslation

\* 278-281
collectionKey(table, info) ==
  LET translation == englishTranslation(info)
  IN pascalCase(IF translation.singular # <<>> THEN translation.singular
                ELSE singular(IF translation.translation # <<>>
                                THEN translation.translation
                                ELSE table))

\* 282-288
newCollection(table, info) ==
  LET key == collectionKey(table, info)
      singleton == info.present /\ info.singleton
  IN [table |-> table,
      key |-> IF singleton THEN key ELSE singular(key),
      fields |-> <<>>,
      singleton |-> singleton]

\* 290-293
groupAfter(byKey, key, table) ==
  MapSet(byKey, key, (IF MapHas(byKey, key) THEN byKey[key] ELSE <<>>) \o <<table>>)

\* 294-296: Set.prototype.add
setAdd(set, x) ==
  IF \E k \in DOMAIN set : set[k] = x THEN set ELSE Append(set, x)

\* 307-331
isMultipleAlias(fieldInfo) ==
  /\ fieldInfo.type = "alias"
  /\ fieldInfo.meta.present
  /\ \E k \in DOMAIN fieldInfo.meta.special :
       fieldInfo.meta.special[k] \in multipleSpecial

fieldRelation(fieldInfo, index) ==
  LET rkey == relationKey(fieldInfo.collection, fieldInfo.field)
      reverse ==
        IF isMultipleAlias(fieldInfo) /\ MapHas(index, rkey) /\ index[rkey] # <<>>
          THEN [present |-> TRUE, table |-> index[rkey], multiple |-> TRUE,
                isM2M |-> \E k \in DOMAIN fieldInfo.meta.special :
                            fieldInfo.meta.special[k] = "m2m"]
          ELSE NoRelation
  IN IF fieldInfo.schema.present /\ fieldInfo.schema.foreign_key_table # <<>>
       THEN [present |-> TRUE, table |-> fieldInfo.schema.foreign_key_table,
             multiple |-> FALSE, isM2M |-> FALSE]
       ELSE reverse

fieldRelationErrors(fieldInfo, index) ==
  LET rkey == relationKey(fieldInfo.collection, fieldInfo.field)
  IN IF isMultipleAlias(fieldInfo) /\ ~(MapHas(index, rkey) /\ index[rkey] # <<>>)
       THEN << <<"Table not found for relation", fieldInfo.field,
                 fieldInfo.collection>> >>
       ELSE <<>>

\* DirectusFile, the type the avatar of a user also allows
DirectusFile == <<"DirectusFile">>
directus_users ==
  <<"d","i","r","e","c","t","u","s","_","u","s","e","r","s">>

\* fieldPosibleTypes with getTypes called whether or not a relation is set
fieldPosibleTypesWithRelation(fieldInfo, relation) ==
  getTypes(fieldInfo.field, fieldInfo.type, fieldInfo.meta)
  \o (IF fieldInfo.field = "avatar" /\ fieldInfo.collection = directus_users
        THEN <<DirectusFile>> ELSE <<>>)

\* fieldPosibleTypes with getTypes skipped for a multi-valued alias whose
\* reverse relation is missing
fieldPosibleTypesNoneOnMiss(fieldInfo, relation) ==
  (IF ~relation.present /\ ~isMultipleAlias(fieldInfo)
     THEN getTypes(fieldInfo.field, fieldInfo.type, fieldInfo.meta)
     ELSE <<>>)
  \o (IF fieldInfo.field = "avatar" /\ fieldInfo.collection = directus_users
        THEN <<DirectusFile>> ELSE <<>>)

\* 333-346
fieldPosibleTypes(fieldInfo, relation) ==
  (IF ~relation.present
     THEN getTypes(fieldInfo.field, fieldInfo.type, fieldInfo.meta)
     ELSE <<>>)
  \o (IF fieldInfo.field = "avatar" /\ fieldInfo.collection = directus_users
        THEN <<DirectusFile>> ELSE <<>>)

\* 299-346
newField(fieldInfo, index) ==
  LET relation == fieldRelation(fieldInfo, index)
  IN [key |-> fieldInfo.field,
      posibleTypes |-> fieldPosibleTypes(fieldInfo, relation),
      required |-> fieldInfo.meta.present /\ fieldInfo.meta.required,
      nullable |-> /\ fieldInfo.schema.present
                   /\ fieldInfo.schema.is_nullable
                   /\ ~fieldInfo.schema.is_primary_key,
      relation |-> relation]

newFieldErrors(fieldInfo, index) ==
  fieldRelationErrors(fieldInfo, index)
  \o (IF ~fieldRelation(fieldInfo, index).present
        THEN getTypesErrors(fieldInfo.field, fieldInfo.type, fieldInfo.meta)
        ELSE <<>>)

\* 348: collection.fields.push(field)
pushField(cmap, table, field) ==
  [k \in DOMAIN cmap |->
     IF cmap[k].table = table
       THEN [cmap[k] EXCEPT !.fields = Append(@, field)]
       ELSE cmap[k]]

(***************************************************************************)
(* The duplicated keys loop (352-396).                                     *)
(***************************************************************************)
\* 359-367: Array.prototype.sort is stable; tables of one length keep their
\* order
RECURSIVE sortByTableLength(_)
sortByTableLength(tables) ==
  IF tables = <<>> THEN <<>>
  ELSE LET shortest == CHOOSE n \in {Len(tables[k]) : k \in DOMAIN tables} :
                         \A k \in DOMAIN tables : n <= Len(tables[k])
       IN SelectSeq(tables, LAMBDA t : Len(t) = shortest)
          \o sortByTableLength(SelectSeq(tables, LAMBDA t : Len(t) # shortest))

\* Array.prototype.find over the tables of a group: the first one at which
\* the flags hold, <<>> if none
firstOf(tables, flags) ==
  IF \E k \in DOMAIN tables : flags[k]
    THEN tables[CHOOSE k \in DOMAIN tables :
                  flags[k] /\ \A j \in DOMAIN tables : flags[j] => k <= j]
    ELSE <<>>

\* 368-373, on the sorted array; the table of the best match
bestMatch(tables, key) ==
  LET lowerKey == toLowerCase(key)
      equal == firstOf(tables, [k \in DOMAIN tables |->
                                  toLowerCase(tables[k]) = lowerKey])
      prefixed == firstOf(tables, [k \in DOMAIN tables |->
                                     startsWith(toLowerCase(tables[k]), lowerKey)])
  IN IF equal # <<>> THEN equal
     ELSE IF prefixed # <<>> THEN prefixed
     ELSE tables[1]

\* 384-391: the key of a collection of the group
resolvedKey(collection, best, key) ==
  IF collection.table = best THEN key
  ELSE IF ~collection.singleton THEN singular(pascalCase(collection.table))
  ELSE pascalCase(collection.table)

\* 381-393
resolveGroup(cmap, tables, key) ==
  LET best == bestMatch(tables, key)
  IN [k \in DOMAIN cmap |->
        IF \E j \in DOMAIN tables : tables[j] = cmap[k].table
          THEN [cmap[k] EXCEPT !.key = resolvedKey(cmap[k], best, key)]
          ELSE cmap[k]]

(***************************************************************************)
(* Rendering (398-438).                                                    *)
(***************************************************************************)
\* 16: the default of argv.typeName
typeName == <<"DirectusTypes">>

\* collectionsData in the order the Name Resolver sorts by: table length
collectionsDataSorted(cmap) ==
  LET tables == sortByTableLength([k \in DOMAIN cmap |-> cmap[k].table])
  IN [k \in DOMAIN tables |-> getCollection(cmap, tables[k])]

\* 403: Array.from(collectionsMap.values())
collectionsData(cmap) == cmap

\* fieldLine with the marker decided by `required` alone
fieldLineRequiredOnly(field, cmap, idType) ==
  <<"  ", field.key>>
  \o (IF field.required THEN <<>> ELSE <<"?">>)
  \o <<": ">>
  \o getTypesText(field.posibleTypes, cmap, idType, field.nullable, field.relation)
  \o <<";">>

\* 409-419
fieldLine(field, cmap, idType) ==
  <<"  ", field.key>>
  \o (IF field.required \/ field.key = "id" THEN <<>> ELSE <<"?">>)
  \o <<": ">>
  \o getTypesText(field.posibleTypes, cmap, idType, field.nullable, field.relation)
  \o <<";">>

\* 407-421
collectionLines(collectionData, cmap, idType) ==
  << <<"export type ">> \o collectionData.key \o <<" = {">> >>
  \o [k \in 1..Len(collectionData.fields) |->
        fieldLine(collectionData.fields[k], cmap, idType)]
  \o << <<"};\n">> >>

\* registryLine with the singleton flag ignored
registryLineIgnoringSingleton(collectionData, isLegacy) ==
  <<"  ">> \o collectionData.table \o <<": ">> \o collectionData.key
  \o (IF ~isLegacy THEN <<"[]">> ELSE <<>>)
  \o <<";">>

\* 427
registryLine(collectionData, isLegacy) ==
  <<"  ">> \o collectionData.table \o <<": ">> \o collectionData.key
  \o (IF ~isLegacy /\ ~collectionData.singleton THEN <<"[]">> ELSE <<>>)
  \o <<";">>

\* 435
enumLine(data, k) ==
  <<"  ">> \o data[k].table \o <<" = '">> \o data[k].table \o <<"'">>
  \o (IF k # Len(data) THEN <<",">> ELSE <<>>)

RECURSIVE flatten(_)
flatten(blocks) ==
  IF blocks = <<>> THEN <<>> ELSE blocks[1] \o flatten(Tail(blocks))

\* 398-438
render(cmap, idType, isLegacy) ==
  LET data == collectionsData(cmap)
  IN << <<"/* eslint-disable @typescript-eslint/consistent-type-definitions */\n">> >>
     \o flatten([k \in 1..Len(data) |-> collectionLines(data[k], cmap, idType)])
     \o << <<"export type ">> \o typeName \o <<" = {">> >>
     \o [k \in 1..Len(data) |-> registryLine(data[k], isLegacy)]
     \o << <<"};\n">> >>
     \o (IF ~isLegacy
           THEN << <<"export enum CollectionNames {">> >>
                \o [k \in 1..Len(data) |-> enumLine(data, k)]
                \o << <<"}\n">> >>
           ELSE <<>>)

\* what getTypesText reports while the fields are rendered (167)
renderErrors(cmap) ==
  flatten([k \in 1..Len(cmap) |->
    flatten([j \in 1..Len(cmap[k].fields) |->
      relationTypesErrors(cmap, cmap[k].fields[j].relation)])])

(***************************************************************************)
(* The inputs.  Two families of schema snapshots are drawn:                *)
(*  - field lists taken from SchemaFields (a snapshot of three tables with *)
(*    every kind of field the fields loop distinguishes), in its order;    *)
(*  - field lists over NameTables, tables whose display keys collide, with *)
(*    the translations and singleton flags that make them collide.         *)
(***************************************************************************)
authors == <<"a","u","t","h","o","r","s">>
books == <<"b","o","o","k","s">>
directus_files ==
  <<"d","i","r","e","c","t","u","s","_","f","i","l","e","s">>
profile == <<"p","r","o","f","i","l","e">>
profiles == <<"p","r","o","f","i","l","e","s">>
Profile == <<"P","r","o","f","i","l","e">>
Profiles == <<"P","r","o","f","i","l","e","s">>
user_profile == <<"u","s","e","r","_","p","r","o","f","i","l","e">>
perfiles == <<"p","e","r","f","i","l","e","s">>
enUS == <<"e","n","-","U","S">>
esES == <<"e","s","-","E","S">>

Schema(nullable, primary, foreign) ==
  [present |-> TRUE, is_nullable |-> nullable, is_primary_key |-> primary,
   foreign_key_table |-> foreign]
Meta(required, special, interface, choices) ==
  [present |-> TRUE, required |-> required, special |-> special,
   interface |-> interface, choices |-> choices]
FieldInfo(collection, field, type, schema, meta) ==
  [collection |-> collection, field |-> field, type |-> type,
   schema |-> schema, meta |-> meta]
RelationInfo(collection, field, related, meta) ==
  [collection |-> collection, field |-> field, related_collection |-> related,
   meta |-> meta]
\* a meta with its many_collection; has_many_collection is FALSE in a meta
\* that has none
RelationMeta(many_collection, many_field, one_collection, one_field) ==
  [present |-> TRUE, has_many_collection |-> TRUE,
   many_collection |-> many_collection, many_field |-> many_field,
   one_collection |-> one_collection, one_field |-> one_field]
\* a meta that has no many_collection
RelationMetaOne(many_field, one_collection, one_field) ==
  [present |-> TRUE, has_many_collection |-> FALSE, many_collection |-> <<>>,
   many_field |-> many_field, one_collection |-> one_collection,
   one_field |-> one_field]
NoRelationMeta ==
  [present |-> FALSE, has_many_collection |-> FALSE, many_collection |-> <<>>,
   many_field |-> "", one_collection |-> <<>>, one_field |-> ""]
CollectionInfo(collection, translations, singleton) ==
  [present |-> TRUE, collection |-> collection, translations |-> translations,
   singleton |-> singleton]
Translation(language, translation, singularForm) ==
  [language |-> language, translation |-> translation, singular |-> singularForm]

SchemaFields ==
  << FieldInfo(authors, "id", "uuid", Schema(FALSE, TRUE, <<>>),
               Meta(FALSE, <<>>, "", <<>>)),
     FieldInfo(authors, "name", "string", Schema(FALSE, FALSE, <<>>),
               Meta(TRUE, <<>>, "", <<>>)),
     FieldInfo(authors, "books", "alias", NoSchema,
               Meta(FALSE, <<"o2m">>, "", <<>>)),
     FieldInfo(authors, "drafts", "alias", Schema(TRUE, FALSE, <<>>),
               Meta(FALSE, <<"m2m">>, "", <<>>)),
     FieldInfo(authors, "status", "string", Schema(TRUE, FALSE, <<>>),
               Meta(FALSE, <<>>, "", <<"draft", "published">>)),
     FieldInfo(authors, "rank", "integer", Schema(FALSE, FALSE, <<>>),
               Meta(TRUE, <<>>, "", <<"1", "2">>)),
     FieldInfo(authors, "location", "geometry", Schema(TRUE, FALSE, <<>>),
               NoMeta),
     FieldInfo(authors, "divider", "alias", NoSchema,
               Meta(FALSE, <<"alias", "no-data">>, "", <<>>)),
     FieldInfo(authors, "keywords", "json", Schema(TRUE, FALSE, <<>>),
               Meta(FALSE, <<>>, "tags", <<>>)),
     FieldInfo(authors, "settings", "json", Schema(FALSE, FALSE, <<>>),
               Meta(FALSE, <<>>, "", <<"a", "b">>)),
     FieldInfo(books, "id", "uuid", Schema(FALSE, TRUE, <<>>),
               Meta(FALSE, <<>>, "", <<>>)),
     FieldInfo(books, "author", "uuid", Schema(TRUE, FALSE, authors),
               Meta(FALSE, <<"m2o">>, "", <<>>)),
     FieldInfo(directus_users, "avatar", "uuid",
               Schema(TRUE, FALSE, directus_files),
               Meta(FALSE, <<"file">>, "", <<>>)),
     FieldInfo(directus_users, "auth_password_policy", "string",
               Schema(TRUE, FALSE, <<>>),
               Meta(FALSE, <<>>, "", <<"weak", "strong">>)) >>

SchemaRelations ==
  << RelationInfo(books, "author", authors,
                  RelationMeta(books, "author", authors, "books")),
     RelationInfo(books, "editor", authors,
                  RelationMeta(books, "editor", authors, "drafts")),
     RelationInfo(directus_users, "avatar", directus_files,
                  RelationMeta(directus_users, "avatar", directus_files, "")),
     RelationInfo(books, "cover", directus_files, NoRelationMeta),
     RelationInfo(books, "publisher", authors,
                  RelationMetaOne("publisher", authors, "publications")) >>

SchemaCollections ==
  << CollectionInfo(authors, <<>>, FALSE), CollectionInfo(books, <<>>, FALSE) >>

\* the elements of seq at the indexes of S, in the order of seq
RECURSIVE subsequence(_, _)
subsequence(seq, S) ==
  IF S = {} THEN <<>>
  ELSE LET k == CHOOSE x \in S : \A y \in S : x <= y
       IN <<seq[k]>> \o subsequence(seq, S \ {k})

NameTables == <<profile, profiles, user_profile, authors, Profile>>

\* what GET /collections may say of a table of NameTables; NoCollectionInfo:
\* the table is not listed
InfoOptions(table) ==
  IF table = profile \/ table = profiles
    THEN {CollectionInfo(table, <<>>, FALSE), CollectionInfo(table, <<>>, TRUE)}
  ELSE IF table = user_profile
    THEN {CollectionInfo(table, <<>>, FALSE),
          CollectionInfo(table, <<Translation(esES, perfiles, <<>>),
                                  Translation(enUS, profiles, <<>>)>>, FALSE),
          CollectionInfo(table, <<Translation(enUS, profiles, Profiles)>>, FALSE)}
  ELSE IF table = authors
    THEN {NoCollectionInfo,
          CollectionInfo(table, <<Translation(enUS, profiles, <<>>)>>, FALSE),
          CollectionInfo(table, <<Translation(enUS, profiles, Profiles)>>, FALSE)}
  ELSE {CollectionInfo(table, <<>>, FALSE)}

NameField(table) ==
  FieldInfo(table, "id", "integer", Schema(FALSE, TRUE, <<>>),
            Meta(FALSE, <<>>, "", <<>>))

\* the field lists over NameTables of at most MaxNameFields fields
NameFieldLists ==
  UNION {[1..n -> {NameField(NameTables[k]) : k \in DOMAIN NameTables}]
           : n \in 0..MaxNameFields}

\* the tables a field list names
tablesOf(fieldList) == {fieldList[k].collection : k \in DOMAIN fieldList}

\* what GET /collections says of a table: a table with no field in the list
\* is never looked up, and is listed plainly
infoChoices(table, fieldList) ==
  IF table \in tablesOf(fieldList) THEN InfoOptions(table)
  ELSE {CollectionInfo(table, <<>>, FALSE)}

\* GET /collections lists NameTables in their order
InitNames ==
  /\ fields \in NameFieldLists
  /\ \E i1 \in infoChoices(NameTables[1], fields),
        i2 \in infoChoices(NameTables[2], fields),
        i3 \in infoChoices(NameTables[3], fields),
        i4 \in infoChoices(NameTables[4], fields),
        i5 \in infoChoices(NameTables[5], fields) :
       collections = SelectSeq(<<i1, i2, i3, i4, i5>>, LAMBDA info : info.present)
  /\ relations = <<>>
  /\ legacy \in BOOLEAN

InitSchema ==
  /\ \E S \in SUBSET (DOMAIN SchemaFields) :
       /\ Cardinality(S) <= MaxFields
       /\ fields = subsequence(SchemaFields, S)
  /\ collections = SchemaCollections
  /\ relations \in {SchemaRelations, SubSeq(SchemaRelations, 3, 4)}
  /\ legacy \in BOOLEAN

Init ==
  /\ InitNames \/ InitSchema
  /\ pc = "relations"
  /\ i = 1
  /\ relatedCollectionByKey = <<>>
  /\ collectionIdType = <<>>
  /\ collectionsMap = <<>>
  /\ collectionsByKey = <<>>
  /\ duplicatedCollectionKeys = <<>>
  /\ errors = <<>>
  /\ lines = <<>>

(***************************************************************************)
(* The steps of main().                                                    *)
(***************************************************************************)
\* 231-249
ReadRelations ==
  /\ pc = "relations"
  /\ relatedCollectionByKey' = indexRelations(relations, 1, <<>>)
  /\ pc' = "fields"
  /\ i' = 1
  /\ UNCHANGED <<collections, fields, relations, legacy, collectionIdType,
                 collectionsMap, collectionsByKey, duplicatedCollectionKeys,
                 errors, lines>>

\* 256-350, one iteration
NormalizeField ==
  /\ pc = "fields"
  /\ i <= Len(fields)
  /\ LET fieldInfo == fields[i]
         table == fieldInfo.collection
         info == collectionInfoOf(collections, table)
         isNew == ~hasCollection(collectionsMap, table)
         key == collectionKey(table, info)
         withCollection == IF isNew
                             THEN Append(collectionsMap, newCollection(table, info))
                             ELSE collectionsMap
         byKey == IF isNew THEN groupAfter(collectionsByKey, key, table)
                  ELSE collectionsByKey
     IN IF avoid(fieldInfo)
          THEN UNCHANGED <<collectionIdType, collectionsMap, collectionsByKey,
                           duplicatedCollectionKeys, errors>>
          ELSE /\ collectionIdType' = idTypeAfter(collectionIdType, fieldInfo)
               /\ collectionsMap' =
                    pushField(withCollection, table,
                              newField(fieldInfo, relatedCollectionByKey))
               /\ collectionsByKey' = byKey
               /\ duplicatedCollectionKeys' =
                    IF isNew /\ Len(byKey[key]) > 1
                      THEN setAdd(duplicatedCollectionKeys, key)
                      ELSE duplicatedCollectionKeys
               /\ errors' = errors \o idTypeErrors(fieldInfo)
                                   \o newFieldErrors(fieldInfo, relatedCollectionByKey)
  /\ i' = i + 1
  /\ UNCHANGED <<collections, fields, relations, legacy, pc,
                 relatedCollectionByKey, lines>>

\* 352: the fields loop is over
FieldsDone ==
  /\ pc = "fields"
  /\ i > Len(fields)
  /\ pc' = "duplicated"
  /\ i' = 1
  /\ UNCHANGED <<collections, fields, relations, legacy, relatedCollectionByKey,
                 collectionIdType, collectionsMap, collectionsByKey,
                 duplicatedCollectionKeys, errors, lines>>

\* 353-395, one iteration
ResolveKey ==
  /\ pc = "duplicated"
  /\ i <= Len(duplicatedCollectionKeys)
  /\ LET key == duplicatedCollectionKeys[i]
         sorted == sortByTableLength(collectionsByKey[key])
     IN IF key # <<>> /\ Len(collectionsByKey[key]) > 0
          THEN /\ collectionsByKey' = [collectionsByKey EXCEPT ![key] = sorted]
               /\ collectionsMap' = resolveGroup(collectionsMap, sorted, key)
          ELSE UNCHANGED <<collectionsByKey, collectionsMap>>
  /\ i' = i + 1
  /\ UNCHANGED <<collections, fields, relations, legacy, pc,
                 relatedCollectionByKey, collectionIdType,
                 duplicatedCollectionKeys, errors, lines>>

\* 398-438
Render ==
  /\ pc = "duplicated"
  /\ i > Len(duplicatedCollectionKeys)
  /\ lines' = render(collectionsMap, collectionIdType, legacy)
  /\ errors' = errors \o renderErrors(collectionsMap)
  /\ pc' = "done"
  /\ UNCHANGED <<collections, fields, relations, legacy, i,
                 relatedCollectionByKey, collectionIdType, collectionsMap,
                 collectionsByKey, duplicatedCollectionKeys>>

Next ==
  \/ ReadRelations
  \/ NormalizeField
  \/ FieldsDone
  \/ ResolveKey
  \/ Render

Spec == Init /\ [][Next]_vars

(***************************************************************************)
(* Reading the inputs and the output, for the properties below.            *)
(***************************************************************************)
Done == pc = "done"

\* the Name Resolver loop has run
Resolved ==
  pc = "done" \/ (pc = "duplicated" /\ i > Len(duplicatedCollectionKeys))

\* the fields of the input that are not skipped, of one table, in input order
inputFieldsOf(table) ==
  SelectSeq(fields, LAMBDA f : f.collection = table /\ ~avoid(f))

\* the tables in the order of their first field that is not skipped
RECURSIVE firstAppearance(_, _)
firstAppearance(k, seen) ==
  IF k > Len(fields) THEN seen
  ELSE firstAppearance(k + 1,
         IF avoid(fields[k])
            \/ \E j \in DOMAIN seen : seen[j] = fields[k].collection
           THEN seen ELSE Append(seen, fields[k].collection))

inputSingleton(table) ==
  LET info == collectionInfoOf(collections, table)
  IN info.present /\ info.singleton

\* the line `export type <key> = {` of the k-th collection; its fields follow
RECURSIVE blockStart(_)
blockStart(k) ==
  IF k = 1 THEN 2
  ELSE blockStart(k - 1) + Len(collectionsMap[k - 1].fields) + 2

\* the line `export type <typeName> = {`; the registry entries follow
registryStart == blockStart(Len(collectionsMap) + 1)
\* the line `export enum CollectionNames {`; the members follow
enumStart == registryStart + Len(collectionsMap) + 2

\* the type expression of a field line: between `: ` and `;`
typeTextOf(line) ==
  SubSeq(line, IF line[3] = "?" THEN 5 ELSE 4, Len(line) - 1)

\* the members of a rendered union: parentheses, array suffixes and the
\* trailing null alternative put aside, split at the union separator
RECURSIVE splitUnion(_, _)
splitUnion(text, current) ==
  IF text = <<>> THEN (IF current = <<>> THEN <<>> ELSE <<current>>)
  ELSE IF text[1] = " | " THEN <<current>> \o splitUnion(Tail(text), <<>>)
  ELSE splitUnion(Tail(text), Append(current, text[1]))

unionMembers(text) ==
  splitUnion(SelectSeq(text, LAMBDA x : x \notin {"(", ")", "[]", " | null"}),
             <<>>)

isAvatar(table, fieldKey) == fieldKey = "avatar" /\ table = directus_users

\* every field of every collection built so far, with the input it was made of
FieldCases ==
  UNION {{<<k, j>> : j \in DOMAIN collectionsMap[k].fields}
           : k \in DOMAIN collectionsMap}

(***************************************************************************)
(* C1: after the Name Resolver loop has run, no two distinct Collections   *)
(* of collectionsMap have the same display key.                            *)
(***************************************************************************)
C1_UniqueDisplayKeys ==
  Resolved =>
    \A a, b \in DOMAIN collectionsMap :
      a # b => collectionsMap[a].key # collectionsMap[b].key

\* the two ways a collision survives: the tables `profile` and `profiles` of
\* one group, the second rekeyed to the key of the first; and two collections
\* of one display key that were never grouped, because the groups are keyed
\* before line 285 singularizes the display key once more
C1_CollisionAfterRekey ==
  /\ Resolved
  /\ Len(collectionsMap) = 2
  /\ collectionsMap[1].table = profile /\ collectionsMap[2].table = profiles
  /\ collectionsByKey[Profile] = <<profile, profiles>>
  /\ collectionsMap[1].key = Profile /\ collectionsMap[2].key = Profile

C1_CollisionNeverGrouped ==
  /\ Resolved
  /\ duplicatedCollectionKeys = <<>>
  /\ \E a, b \in DOMAIN collectionsMap :
       a # b /\ collectionsMap[a].key = collectionsMap[b].key

(***************************************************************************)
(* C2: the collection "authors" with the fields id (uuid, primary key),    *)
(* name (string, required) and books (alias, o2m, reverse relation to      *)
(* "books", whose key is Book and identifier type string) is rendered.     *)
(***************************************************************************)
C2_Scenario ==
  /\ inputFieldsOf(authors) = SubSeq(SchemaFields, 1, 3)
  /\ \E k \in DOMAIN fields : fields[k] = SchemaFields[11]
  /\ relations = SchemaRelations

C2_Header == <<"export type ", "A", "u", "t", "h", "o", "r", " = {">>

\* C2 as stated: `Author = { id: string; name: string; books: (string | Book)[]; }`
C2_AuthorAsClaimed ==
  (Done /\ C2_Scenario) =>
    SubSeq(lines, 2, 6) =
      << C2_Header,
         <<"  ", "id", ": ", "string", ";">>,
         <<"  ", "name", ": ", "string", ";">>,
         <<"  ", "books", ": ", "(", "string", " | ", "B", "o", "o", "k", ")",
           "[]", ";">>,
         <<"};\n">> >>

\* C2 amended: `Author = { id: string; name: string; books?: string[] | Book[]; }`:
\* books is optional, and each member of the union carries the array suffix
C2_AuthorRendered ==
  (Done /\ C2_Scenario) =>
    SubSeq(lines, 2, 6) =
      << C2_Header,
         <<"  ", "id", ": ", "string", ";">>,
         <<"  ", "name", ": ", "string", ";">>,
         <<"  ", "books", "?", ": ", "string", "[]", " | ", "B", "o", "o", "k",
           "[]", ";">>,
         <<"};\n">> >>

C2_Witness == Done /\ C2_Scenario /\ Len(lines) >= 6

(***************************************************************************)
(* C3: the line of a field carries the optional-field marker `?` exactly   *)
(* when the field is neither marked required in the input nor named "id".  *)
(***************************************************************************)
C3_OptionalMarker ==
  Done =>
    \A c \in FieldCases :
      LET table == collectionsMap[c[1]].table
          fieldInfo == inputFieldsOf(table)[c[2]]
          line == lines[blockStart(c[1]) + c[2]]
      IN /\ line[2] = fieldInfo.field
         /\ (line[3] = "?") <=>
              (~(fieldInfo.meta.present /\ fieldInfo.meta.required)
               /\ fieldInfo.field # "id")

C3_Witness ==
  /\ Done
  /\ \E c \in FieldCases : lines[blockStart(c[1]) + c[2]][3] = "?"
  /\ \E k \in DOMAIN fields :
       fields[k].field = "id" /\ ~fields[k].meta.required
  /\ \E k \in DOMAIN fields :
       fields[k].field # "id" /\ fields[k].meta.required

(***************************************************************************)
(* C4: in the registry type the entry of a singleton collection never      *)
(* carries the array suffix, and the entry of any other collection carries *)
(* it exactly when legacy is not set.                                      *)
(***************************************************************************)
C4_RegistryArray ==
  Done =>
    \A k \in DOMAIN collectionsMap :
      LET line == lines[registryStart + k]
          table == collectionsMap[k].table
      IN /\ startsWith(line, <<"  ">> \o table \o <<": ">>)
         /\ line[Len(line)] = ";"
         /\ (line[Len(line) - 1] = "[]") <=> (~inputSingleton(table) /\ ~legacy)

C4_Witness ==
  /\ Done
  /\ ~legacy
  /\ \E k \in DOMAIN collectionsMap : inputSingleton(collectionsMap[k].table)
  /\ \E k \in DOMAIN collectionsMap : ~inputSingleton(collectionsMap[k].table)

(***************************************************************************)
(* C5: a Relation descriptor and a non-empty candidate-type list never     *)
(* coexist in a Field.                                                     *)
(***************************************************************************)
\* C5 as stated: whenever field.relation is set, field.posibleTypes is empty
C5_RelationExcludesTypes ==
  \A c \in FieldCases :
    LET field == collectionsMap[c[1]].fields[c[2]]
    IN field.relation.present => field.posibleTypes = <<>>

\* C5 amended: whenever field.relation is set, field.posibleTypes is empty,
\* except for the field avatar of directus_users, whose list is exactly
\* [DirectusFile]; the union rendered for a relational field holds that list
\* followed by the identifier type and the key of the target (when the target
\* is a collection of the output), and the union rendered for a field without
\* relation holds its candidate types and nothing else
C5_RelationExcludesTypesButAvatar ==
  \A c \in FieldCases :
    LET table == collectionsMap[c[1]].table
        field == collectionsMap[c[1]].fields[c[2]]
        override == IF isAvatar(table, field.key) THEN <<DirectusFile>> ELSE <<>>
        target == field.relation.table
        targetTypes ==
          IF \E k \in DOMAIN collectionsMap : collectionsMap[k].table = target
            THEN (IF target \in DOMAIN collectionIdType
                    THEN << <<collectionIdType[target]>> >> ELSE <<>>)
                 \o <<(CHOOSE x \in {collectionsMap[k] : k \in DOMAIN collectionsMap} :
                         x.table = target).key>>
            ELSE <<>>
    IN /\ field.relation.present => field.posibleTypes = override
       /\ Done =>
            unionMembers(typeTextOf(lines[blockStart(c[1]) + c[2]])) =
              IF field.relation.present THEN override \o targetTypes
              ELSE field.posibleTypes

C5_Witness ==
  /\ Done
  /\ \E c \in FieldCases :
       LET field == collectionsMap[c[1]].fields[c[2]]
       IN field.relation.present /\ field.posibleTypes = <<DirectusFile>>
  /\ \E c \in FieldCases :
       LET field == collectionsMap[c[1]].fields[c[2]]
       IN /\ field.relation.present /\ field.posibleTypes = <<>>
          /\ Len(unionMembers(typeTextOf(lines[blockStart(c[1]) + c[2]]))) = 2

(***************************************************************************)
(* C6: a field without relation whose backend type is not in the           *)
(* type-mapping table, and which has no applicable choices, is reported    *)
(* and keeps the placeholder type "unknown"; its rendered type is never    *)
(* empty.                                                                  *)
(***************************************************************************)
C6_UnknownPlaceholder ==
  \A c \in FieldCases :
    LET table == collectionsMap[c[1]].table
        field == collectionsMap[c[1]].fields[c[2]]
        fieldInfo == inputFieldsOf(table)[c[2]]
    IN (/\ ~field.relation.present
        /\ fieldInfo.type \notin DOMAIN types
        /\ ~(fieldInfo.meta.present /\ Len(fieldInfo.meta.choices) > 0))
       => /\ \E e \in DOMAIN errors : errors[e] = <<"Type missing", fieldInfo.type>>
          /\ field.posibleTypes = << <<"unknown">> >>
          /\ Done => typeTextOf(lines[blockStart(c[1]) + c[2]]) # <<>>

(***************************************************************************)
(* C7: an alias field with a special marker of the multiple set and no     *)
(* entry in the reverse-relation index.                                    *)
(***************************************************************************)
C7_Miss(fieldInfo) ==
  /\ fieldInfo.type = "alias"
  /\ fieldInfo.meta.present
  /\ \E k \in DOMAIN fieldInfo.meta.special :
       fieldInfo.meta.special[k] \in {"o2m", "m2m", "translations"}
  /\ relationKey(fieldInfo.collection, fieldInfo.field)
       \notin DOMAIN relatedCollectionByKey

C7_Reported(fieldInfo) ==
  \E e \in DOMAIN errors :
    errors[e] = <<"Table not found for relation", fieldInfo.field,
                  fieldInfo.collection>>

\* C7 as stated: the miss is reported and the Field has no relation and an
\* empty candidate-type list
C7_MissLeavesNoTypes ==
  \A c \in FieldCases :
    LET field == collectionsMap[c[1]].fields[c[2]]
        fieldInfo == inputFieldsOf(collectionsMap[c[1]].table)[c[2]]
    IN C7_Miss(fieldInfo) =>
         /\ C7_Reported(fieldInfo)
         /\ ~field.relation.present
         /\ field.posibleTypes = <<>>

\* C7 amended: the miss is reported and the field is kept; unless it carries a
\* foreign-key target it has no relation, and its candidate types are those
\* of any alias field without relation: its choices as unquoted literals if
\* it declares applicable choices, else number (followed by DirectusFile for
\* the avatar of directus_users)
C7_MissFallsBackToAliasType ==
  \A c \in FieldCases :
    LET table == collectionsMap[c[1]].table
        field == collectionsMap[c[1]].fields[c[2]]
        fieldInfo == inputFieldsOf(table)[c[2]]
        choices == fieldInfo.meta.choices
    IN (C7_Miss(fieldInfo)
        /\ ~(fieldInfo.schema.present /\ fieldInfo.schema.foreign_key_table # <<>>))
       => /\ C7_Reported(fieldInfo)
          /\ field.key = fieldInfo.field
          /\ ~field.relation.present
          /\ field.posibleTypes =
               (IF Len(choices) > 0 /\ fieldInfo.field # "auth_password_policy"
                  THEN [k \in DOMAIN choices |-> <<choices[k]>>]
                  ELSE << <<"number">> >>)
               \o (IF isAvatar(table, field.key) THEN <<DirectusFile>> ELSE <<>>)

C7_Witness ==
  /\ Done
  /\ \E c \in FieldCases :
       LET field == collectionsMap[c[1]].fields[c[2]]
           fieldInfo == inputFieldsOf(collectionsMap[c[1]].table)[c[2]]
       IN C7_Miss(fieldInfo) /\ field.posibleTypes = << <<"number">> >>

(***************************************************************************)
(* C8: the array suffix and the null alternative in getTypesText.          *)
(***************************************************************************)
\* the union getTypesText renders for a field
C8_Union(field) ==
  field.posibleTypes
  \o relationTypes(collectionsMap, collectionIdType, field.relation)

C8_PerMember(union) == join([k \in DOMAIN union |-> union[k] \o <<"[]">>], <<" | ">>)
C8_Outer(union) == join(union, <<" | ">>) \o <<"[]">>
C8_OuterParenthesized(union) == <<"(">> \o join(union, <<" | ">>) \o <<")", "[]">>

C8_IsMultiple(field) == field.relation.present /\ field.relation.multiple

\* the fields that are not multi-valued: no array suffix is added, and the
\* null alternative is appended exactly when the field is nullable
C8_SingleValued(field, text) ==
  LET union == C8_Union(field)
      joined == join(union, <<" | ">>)
  IN text = IF ~field.nullable THEN joined
            ELSE IF Len(union) > 1 THEN <<"(">> \o joined \o <<")", " | null">>
            ELSE joined \o <<" | null">>

\* C8 as stated: of the two placements of the array suffix, nullability
\* chooses which one a multi-valued relation gets
C8_NullabilityChoosesPlacement ==
  Done =>
    \E perMemberIfNullable \in BOOLEAN :
      \A c \in FieldCases :
        LET field == collectionsMap[c[1]].fields[c[2]]
            text == typeTextOf(lines[blockStart(c[1]) + c[2]])
            union == C8_Union(field)
        IN IF C8_IsMultiple(field)
             THEN IF field.nullable = perMemberIfNullable
                    THEN text = C8_PerMember(union)
                    ELSE text \in {C8_Outer(union), C8_OuterParenthesized(union)}
             ELSE C8_SingleValued(field, text)

\* C8 amended: a multi-valued relation gets exactly one of the two
\* placements, chosen by the number of members of the union and not by
\* nullability: each member carries the suffix when there are two or more,
\* a single outer suffix follows otherwise; it never gets the null
\* alternative
C8_MemberCountChoosesPlacement ==
  Done =>
    \A c \in FieldCases :
      LET field == collectionsMap[c[1]].fields[c[2]]
          text == typeTextOf(lines[blockStart(c[1]) + c[2]])
          union == C8_Union(field)
      IN IF C8_IsMultiple(field)
           THEN text = IF Len(union) > 1 THEN C8_PerMember(union)
                       ELSE C8_Outer(union)
           ELSE C8_SingleValued(field, text)

C8_Witness ==
  /\ Done
  /\ \E c \in FieldCases :
       LET field == collectionsMap[c[1]].fields[c[2]]
       IN C8_IsMultiple(field) /\ field.nullable /\ Len(C8_Union(field)) = 2
  /\ \E c \in FieldCases :
       LET field == collectionsMap[c[1]].fields[c[2]]
       IN C8_IsMultiple(field) /\ ~field.nullable /\ Len(C8_Union(field)) = 2

(***************************************************************************)
(* C9: in every collision group the best match is, in this order, a member *)
(* whose table name equals the collision key case-insensitively, else one  *)
(* whose table name starts with it case-insensitively, else one with the   *)
(* shortest table name; the best match keeps the display key it had before *)
(* the resolution, and every other member gets PascalCase of its own table *)
(* name, singularized unless singleton.                                    *)
(***************************************************************************)
C9_KeyOf(cmap, table) ==
  (CHOOSE x \in {cmap[k] : k \in DOMAIN cmap} : x.table = table).key

C9_Equals(table, key) == toLowerCase(table) = toLowerCase(key)
C9_StartsWith(table, key) ==
  /\ Len(table) >= Len(key)
  /\ SubSeq(toLowerCase(table), 1, Len(key)) = toLowerCase(key)

C9_IsBest(table, members, key) ==
  IF \E m \in members : C9_Equals(m, key) THEN C9_Equals(table, key)
  ELSE IF \E m \in members : C9_StartsWith(m, key) THEN C9_StartsWith(table, key)
  ELSE \A m \in members : Len(table) <= Len(m)

\* what holds of every step of the duplicated keys loop: the best match is
\* chosen in that order and the other members are rekeyed from their table
\* names, but the best match gets the collision key, which is the key it had
\* only if it is a singleton or the collision key is its own singular
C9_BestMatchGetsCollisionKey ==
  [][(pc = "duplicated" /\ i <= Len(duplicatedCollectionKeys))
       => LET key == duplicatedCollectionKeys[i]
              members == {collectionsByKey[key][k] : k \in DOMAIN collectionsByKey[key]}
          IN \E best \in members :
               /\ C9_IsBest(best, members, key)
               /\ C9_KeyOf(collectionsMap', best) = key
               /\ (inputSingleton(best) \/ singular(key) = key)
                    => C9_KeyOf(collectionsMap, best) = key
               /\ \A m \in members \ {best} :
                    C9_KeyOf(collectionsMap', m) =
                      IF inputSingleton(m) THEN pascalCase(m)
                      ELSE singular(pascalCase(m))]_vars

\* C9: on every step of the duplicated keys loop, a member chosen in the
\* order above keeps the display key it had before the step, and every other
\* member of the group gets PascalCase of its table name, singularized unless
\* singleton
C9_BestMatchKeepsKey ==
  [][(pc = "duplicated" /\ i <= Len(duplicatedCollectionKeys))
       => LET key == duplicatedCollectionKeys[i]
              members == {collectionsByKey[key][k] : k \in DOMAIN collectionsByKey[key]}
          IN \E best \in members :
               /\ C9_IsBest(best, members, key)
               /\ C9_KeyOf(collectionsMap', best) = C9_KeyOf(collectionsMap, best)
               /\ \A m \in members \ {best} :
                    C9_KeyOf(collectionsMap', m) =
                      IF inputSingleton(m) THEN pascalCase(m)
                      ELSE singular(pascalCase(m))]_vars

(***************************************************************************)
(* C10: in the output (composite types, registry entries, enumeration      *)
(* members) the collections come in the order of the first field of their  *)
(* table that is not skipped in the input, and the fields of a collection  *)
(* in input order, whatever the Name Resolver sorted.                      *)
(***************************************************************************)
C10_InputOrder ==
  Done =>
    LET tables == firstAppearance(1, <<>>)
    IN /\ Len(collectionsMap) = Len(tables)
       /\ \A k \in DOMAIN tables :
            LET table == tables[k]
                key == C9_KeyOf(collectionsMap, table)
                inputs == inputFieldsOf(table)
            IN /\ lines[blockStart(k)] = <<"export type ">> \o key \o <<" = {">>
               /\ \A j \in DOMAIN inputs :
                    startsWith(lines[blockStart(k) + j], <<"  ", inputs[j].field>>)
               /\ lines[blockStart(k) + Len(inputs) + 1] = <<"};\n">>
               /\ startsWith(lines[registryStart + k],
                             <<"  ">> \o table \o <<": ">> \o key)
               /\ ~legacy =>
                    startsWith(lines[enumStart + k],
                               <<"  ">> \o table \o <<" = '">> \o table \o <<"'">>)

\* the Name Resolver has sorted a group into another order than the input's,
\* and a collection has several fields
C10_Witness ==
  /\ Done
  /\ ~legacy
  /\ \E key \in DOMAIN collectionsByKey :
       /\ Len(collectionsByKey[key]) > 1
       /\ collectionsByKey[key] #
            SelectSeq(firstAppearance(1, <<>>),
                      LAMBDA t : \E k \in DOMAIN collectionsByKey[key] :
                                   collectionsByKey[key][k] = t)
  /\ \E k \in DOMAIN collectionsMap : Len(collectionsMap[k].fields) > 1

====
